---- MODULE Spec2Model ----
(***************************************************************************)
(* Motion-based trim pipeline of volleyball-analytics.                     *)
(*                                                                         *)
(* Several state machines share this module, each with its own             *)
(* specification:                                                          *)
(*   SpecSeg     the segmenter scoresToSegments (motionDetector.ts)        *)
(*   SpecSegRuns the segmenter on score lists of two levels                *)
(*   SpecScore   the scorer computeMotionScores (motionDetector.ts)        *)
(*   SpecSmooth  the smoother smoothScores (motionDetector.ts)             *)
(*   SpecDl      the remote fetcher downloadVideoFromUrl                   *)
(*               (remoteVideoDownloader.ts), event by event                *)
(*   SpecPipe    the orchestrator runTrimPipeline (trimPipeline.ts)        *)
(*   SpecStore   the storage sink VideoStorage (storageProvider.ts)        *)
(*   SpecTrim    the trim muxer trimVideoToSegments (videoTrimmer.ts)      *)
(*   SpecDetect  detectMotionSegments and its temporary files              *)
(*   SpecOptions the request options read by POST /trim (videoRoutes.ts)   *)
(*   SpecUploads the memoized resolveUploadsDir                            *)
(*                                                                         *)
(* Times are counted in ticks of 1/TicksPerSec seconds, so that i/sampleFps*)
(* is exact for every sampleFps that divides TicksPerSec.  Scores and the  *)
(* threshold are counted in a common fixed-point unit.                     *)
(***************************************************************************)
EXTENDS Integers, Sequences, FiniteSets, TLC

VARIABLES
  \* ---- segmenter ----
  segPc,          \* "call" before scoresToSegments has run, "done" after, "idle"
  segArgs,        \* the arguments of the call
  segResult,      \* the returned TimeRange[]
  segStages,      \* the lists raw, filtered and padded of the call
  \* ---- motion scorer ----
  scPc,           \* "call" before computeMotionScores has run, "done" after, "idle"
  scArgs,         \* rawData and frameSize
  scResult,       \* the returned scores
  \* ---- smoother ----
  smPc,           \* "call" before smoothScores has run, "done" after, "idle"
  smArgs,         \* scores (a reference into the heap) and windowSize
  smBefore,       \* the heap when smoothScores was called
  smHeap,         \* the arrays that exist, by reference
  smResult,       \* the returned reference, 0 before the return
  \* ---- remote fetcher ----
  dlPc,           \* position of the current attempt
  dlArgs,         \* arguments of the outermost call
  hop,            \* arguments of the current (possibly recursive) call
  requests,       \* HTTP requests issued so far
  redirectsSeen,  \* 3xx+Location responses received so far
  resp,           \* the response being handled
  promise,        \* "pending", "resolved", "rejected"
  settleCount,    \* number of resolve/reject calls made on the promise of the call
  dlError,        \* the rejection reason
  settled,        \* the closure variable `settled`
  downloaded,     \* the closure variable `downloaded`
  bodyLeft,       \* bytes the server has still to send
  resState,       \* "none", "flowing", "ended", "destroyed"
  fsOpen,         \* "none", "opening", "open", "closed"
  fsEnded,        \* fileStream.end() was called by the pipe
  fsDestroyed,    \* fileStream.destroy() was called, or the stream errored
  fileExists,     \* destDir/remote-<uuid><ext> is on disk
  fileExt,        \* the extension chosen for that file
  \* ---- orchestrator ----
  pipePc,         \* position inside runTrimPipeline
  params,         \* TrimPipelineParams and the environment of the run
  inputPath,      \* "none", "caller", "downloaded"
  downloadedPath, \* TRUE when downloadedPath is set
  outputPath,     \* TRUE when outputPath is set
  disk,           \* which of the files of the run exist
  segments,       \* the list returned by detectMotionSegments
  calls,          \* how often each stage was started
  completed,      \* how often each stage returned normally
  raised,         \* the error raised by the failing step
  thrown,         \* the error that reaches the caller
  \* ---- trimmer ----
  trPc,           \* position of trimVideoToSegments
  trArgs,         \* segments, the kind of input and the state of outputPath before
  withAudio,      \* the answer of hasAudioStream
  probes,         \* ffprobe calls made
  runs,           \* ffmpeg commands started
  trOutput,       \* the file at outputPath: "none", "old", "partial", "file"
  trFilter,       \* the filter graph handed to ffmpeg
  trError,        \* the error the call failed with
  \* ---- detector ----
  detPc,          \* position of detectMotionSegments
  detArgs,        \* what the probe, the extraction and the read of the call will meet
  tmpDir,         \* the temporary directory of the call exists
  rawFile,        \* frames.raw in it: "none", "partial", "file"
  framesWritten,  \* frames ffmpeg has written to frames.raw
  detResult,      \* the number of frames scored, -1 before the return
  detError,       \* the error the call failed with
  \* ---- request options ----
  optPc,          \* "call" before the options are read from the body, "done" after
  optBody,        \* the fields of the request body
  optOptions,     \* the MotionDetectorOptions handed to runTrimPipeline
  \* ---- uploads directory ----
  cachedUploadsDir, \* the module variable of the same name
  envUploadsDir,  \* process.env.UPLOADS_DIR
  mkdirCalls,     \* fs.mkdirSync calls made
  updCalls,       \* resolveUploadsDir calls made
  updResult,      \* how the last call ended and with which path
  \* ---- storage ----
  stPc,           \* "new" before the constructor has run, "ready" after, "idle"
  stOptions,      \* options.connectionString and AZURE_STORAGE_CONNECTION_STRING
  containerClient,\* TRUE when this.containerClient is set
  sharedKey,      \* TRUE when this.sharedKey is set
  containerReady, \* "none", "pending", "resolved", "rejected"
  createCalls,    \* calls of containerClient.createIfNotExists
  localFiles,     \* names present in the local inputs / processed directories
  blobs,          \* names present in the container under the input / output prefix
  ops             \* the operations started on the instance

segVars == <<segPc, segArgs, segResult, segStages>>
scVars == <<scPc, scArgs, scResult>>
smVars == <<smPc, smArgs, smBefore, smHeap, smResult>>
dlVars == <<dlPc, dlArgs, hop, requests, redirectsSeen, resp, promise, settleCount,
            dlError, settled, downloaded, bodyLeft, resState, fsOpen, fsEnded,
            fsDestroyed, fileExists, fileExt>>
pipeVars == <<pipePc, params, inputPath, downloadedPath, outputPath, disk, segments,
              calls, completed, raised, thrown>>
stVars == <<stPc, stOptions, containerClient, sharedKey, containerReady, createCalls,
            localFiles, blobs, ops>>
trVars == <<trPc, trArgs, withAudio, probes, runs, trOutput, trFilter, trError>>
oldVars == <<segVars, scVars, smVars, dlVars, pipeVars, stVars>>
detVars == <<detPc, detArgs, tmpDir, rawFile, framesWritten, detResult, detError>>
optVars == <<optPc, optBody, optOptions>>
updVars == <<cachedUploadsDir, envUploadsDir, mkdirCalls, updCalls, updResult>>
moreVars == <<trVars, detVars, optVars, updVars>>
vars == <<oldVars, moreVars>>

Max(a, b) == IF a >= b THEN a ELSE b
Min(a, b) == IF a <= b THEN a ELSE b

(***************************************************************************)
(* Segmenter                                                               *)
(***************************************************************************)
MaxFps == 2
MaxScores == 4
MaxScoreVal == 2
MaxDuration == 4
MaxRoll == 1
MaxMinLen == 2

SampleFpsSet == 1..MaxFps

\* The tick is chosen so that every sampleFps of the model divides a second exactly.
RECURSIVE Factorial(_)
Factorial(n) == IF n <= 1 THEN 1 ELSE n * Factorial(n - 1)
TicksPerSec == Factorial(MaxFps)

\* t = i / sampleFps, in ticks (i is the 0-based sample index)
TimeOf(i, sampleFps) == (i * TicksPerSec) \div sampleFps

\* active = smoothed.map(s => s >= threshold)
Active(smoothed, threshold) == [k \in 1..Len(smoothed) |-> smoothed[k] >= threshold]

\* The run-length loop.  i is the 0-based index, segStart = -1 stands for null.
RECURSIVE CollectRaw(_, _, _, _, _, _)
CollectRaw(active, sampleFps, duration, i, segStart, raw) ==
  IF i >= Len(active)
  THEN IF segStart # -1
       THEN Append(raw, [start |-> segStart, end |-> duration])
       ELSE raw
  ELSE LET t == TimeOf(i, sampleFps) IN
       IF active[i + 1] /\ segStart = -1
       THEN CollectRaw(active, sampleFps, duration, i + 1, t, raw)
       ELSE IF ~active[i + 1] /\ segStart # -1
            THEN CollectRaw(active, sampleFps, duration, i + 1, -1,
                            Append(raw, [start |-> segStart, end |-> t]))
            ELSE CollectRaw(active, sampleFps, duration, i + 1, segStart, raw)

RawSegments(smoothed, sampleFps, threshold, duration) ==
  CollectRaw(Active(smoothed, threshold), sampleFps, duration, 0, -1, <<>>)

\* raw.filter(s => s.end - s.start >= minSegmentLength)
KeepSegmentStrict(s, minSegmentLength) == s.end - s.start > minSegmentLength
KeepSegment(s, minSegmentLength) == s.end - s.start >= minSegmentLength

FilterShort(raw, minSegmentLength) ==
  SelectSeq(raw, LAMBDA s : KeepSegment(s, minSegmentLength))

PadSegmentShifted(s, preRoll, postRoll, duration) ==
  LET start == Max(0, s.start - preRoll) IN
  [start |-> start, end |-> Min(duration, s.end + postRoll - (start - (s.start - preRoll)))]
PadSegment(s, preRoll, postRoll, duration) ==
  [start |-> Max(0, s.start - preRoll), end |-> Min(duration, s.end + postRoll)]

PadAll(filtered, preRoll, postRoll, duration) ==
  [k \in 1..Len(filtered) |-> PadSegment(filtered[k], preRoll, postRoll, duration)]

RECURSIVE MergeFromStrict(_, _, _)
MergeFromStrict(padded, k, merged) ==
  IF k > Len(padded) THEN merged
  ELSE LET seg == padded[k]
           n == Len(merged) IN
       IF n > 0 /\ seg.start < merged[n].end
       THEN MergeFromStrict(padded, k + 1,
                            [merged EXCEPT ![n].end = Max(merged[n].end, seg.end)])
       ELSE MergeFromStrict(padded, k + 1,
                            Append(merged, [start |-> seg.start, end |-> seg.end]))

RECURSIVE MergeFrom(_, _, _)
MergeFrom(padded, k, merged) ==
  IF k > Len(padded) THEN merged
  ELSE LET seg == padded[k]
           n == Len(merged) IN
       IF n > 0 /\ seg.start <= merged[n].end
       THEN MergeFrom(padded, k + 1,
                      [merged EXCEPT ![n].end = Max(merged[n].end, seg.end)])
       ELSE MergeFrom(padded, k + 1, Append(merged, [start |-> seg.start, end |-> seg.end]))

MergeSegments(padded) == MergeFrom(padded, 1, <<>>)

scoresToSegments(smoothed, sampleFps, threshold, minSegmentLength, preRoll, postRoll, duration) ==
  MergeSegments(
    PadAll(FilterShort(RawSegments(smoothed, sampleFps, threshold, duration),
                       minSegmentLength),
           preRoll, postRoll, duration))

ScoreLists == UNION {[1..n -> 0..MaxScoreVal] : n \in 0..MaxScores}

SegArgsSet ==
  [smoothed : ScoreLists,
   sampleFps : SampleFpsSet,
   threshold : 1..MaxScoreVal,
   minSegmentLength : 0..MaxMinLen,
   preRoll : 0..MaxRoll,
   postRoll : 0..MaxRoll,
   duration : 1..MaxDuration]

NoArgs == [smoothed |-> <<>>, sampleFps |-> 1, threshold |-> 1, minSegmentLength |-> 0,
           preRoll |-> 0, postRoll |-> 0, duration |-> 1]

NoStages == [raw |-> <<>>, filtered |-> <<>>, padded |-> <<>>]

\* the lists scoresToSegments builds on its way: raw, filtered, padded
Stages(smoothed, sampleFps, threshold, minSegmentLength, preRoll, postRoll, duration) ==
  LET raw == RawSegments(smoothed, sampleFps, threshold, duration)
      filtered == FilterShort(raw, minSegmentLength) IN
  [raw |-> raw, filtered |-> filtered,
   padded |-> PadAll(filtered, preRoll, postRoll, duration)]

SegIdle == segPc = "idle" /\ segArgs = NoArgs /\ segResult = <<>> /\ segStages = NoStages

SegCall ==
  /\ segPc = "call"
  /\ segResult' = scoresToSegments(segArgs.smoothed, segArgs.sampleFps, segArgs.threshold,
                                   segArgs.minSegmentLength, segArgs.preRoll,
                                   segArgs.postRoll, segArgs.duration)
  /\ segStages' = Stages(segArgs.smoothed, segArgs.sampleFps, segArgs.threshold,
                          segArgs.minSegmentLength, segArgs.preRoll, segArgs.postRoll,
                          segArgs.duration)
  /\ segPc' = "done"
  /\ UNCHANGED <<segArgs, dlVars, pipeVars, stVars, scVars, smVars, moreVars>>

\* Score lists on two levels, just below the threshold and at it: what
\* scoresToSegments makes of a list depends on the comparisons s >= threshold only.
MaxRunScores == 5
MaxRunDuration == 5

RunArgsSet ==
  UNION {[smoothed : UNION {[1..n -> {threshold - 1, threshold}] : n \in 0..MaxRunScores},
          sampleFps : SampleFpsSet,
          threshold : {threshold},
          minSegmentLength : 0..MaxMinLen,
          preRoll : 0..MaxRoll,
          postRoll : 0..MaxRoll,
          duration : 1..MaxRunDuration] : threshold \in 1..MaxScoreVal}

(***************************************************************************)
(* Motion scorer and smoother                                              *)
(***************************************************************************)
MaxBuf == 5
MaxFrameSize == 2
MaxWindow == 4

\* the largest value of a byte of the buffer, the divisor of the normalisation
ByteMax == 255

\* A number that need not be an integer is kept as an exact fraction.
Num(x) == [num |-> x, den |-> 1]
RatDiv(q, k) == [num |-> q.num, den |-> q.den * k]
RatAdd(a, b) == [num |-> a.num * b.den + b.num * a.den, den |-> a.den * b.den]

Bytes == {0, 1, ByteMax - 1, ByteMax}
Buffers == UNION {[1..n -> Bytes] : n \in 0..MaxBuf}

ScoreArgsSet == [rawData : Buffers, frameSize : 1..MaxFrameSize]
NoScoreArgs == [rawData |-> <<>>, frameSize |-> 1]

\* Math.abs
AbsIdentity(x) == x
Abs(x) == IF x < 0 THEN -x ELSE x

\* rawData[k], k counted from 0
ByteAt(rawData, k) == rawData[k + 1]

\* the inner loop from j on: the sum of |rawData[off2 + j] - rawData[off1 + j]|
RECURSIVE FrameDiff(_, _, _, _, _)
FrameDiff(rawData, off1, off2, frameSize, j) ==
  IF j >= frameSize THEN 0
  ELSE Abs(ByteAt(rawData, off2 + j) - ByteAt(rawData, off1 + j))
       + FrameDiff(rawData, off1, off2, frameSize, j + 1)

\* Math.floor(rawData.length / frameSize)
NumFramesAtLeastOne(rawData, frameSize) == Max(1, Len(rawData) \div frameSize)
NumFrames(rawData, frameSize) == Len(rawData) \div frameSize

\* scores[i] for the 0-based frame index i = f - 1
computeMotionScores(rawData, frameSize) ==
  LET numFrames == NumFrames(rawData, frameSize) IN
  [f \in 1..numFrames |->
     LET i == f - 1 IN
     IF i < 1 THEN Num(0)
     ELSE RatDiv(RatDiv(Num(FrameDiff(rawData, (i - 1) * frameSize, i * frameSize,
                                      frameSize, 0)),
                        frameSize),
                 ByteMax)]

ScoreIdle == scPc = "idle" /\ scArgs = NoScoreArgs /\ scResult = <<>>

ScoreCall ==
  /\ scPc = "call"
  /\ scResult' = computeMotionScores(scArgs.rawData, scArgs.frameSize)
  /\ scPc' = "done"
  /\ UNCHANGED <<scArgs, segVars, smVars, dlVars, pipeVars, stVars,
                 moreVars>>

\* scores.slice(): a new array with the same elements
SliceAlias(heap, ref) == [heap |-> heap, ref |-> ref]
Slice(heap, ref) == [heap |-> Append(heap, heap[ref]), ref |-> Len(heap) + 1]

\* for (let k = start; k < end; k++) sum += scores[k]
RECURSIVE SumFrom(_, _, _)
SumFrom(scores, k, end) ==
  IF k >= end THEN Num(0) ELSE RatAdd(scores[k + 1], SumFrom(scores, k + 1, end))

\* the callback of scores.map, for the 0-based index i
WindowMeanOverWindow(scores, i, half) ==
  LET start == Max(0, i - half)
      end == Min(Len(scores), i + half + 1) IN
  RatDiv(SumFrom(scores, start, end), 2 * half + 1)
WindowMean(scores, i, half) ==
  LET start == Max(0, i - half)
      end == Min(Len(scores), i + half + 1) IN
  RatDiv(SumFrom(scores, start, end), end - start)

smoothScores(heap, ref, windowSize) ==
  IF windowSize <= 1 THEN Slice(heap, ref)
  ELSE LET half == windowSize \div 2
           scores == heap[ref] IN
       [heap |-> Append(heap, [f \in 1..Len(scores) |-> WindowMean(scores, f - 1, half)]),
        ref |-> Len(heap) + 1]

WindowSizes == -1..MaxWindow
SmoothArgsSet == [scores : {1}, windowSize : WindowSizes]
NoSmoothArgs == [scores |-> 0, windowSize |-> 0]

SmoothIdle ==
  /\ smPc = "idle" /\ smArgs = NoSmoothArgs /\ smBefore = <<>> /\ smHeap = <<>>
  /\ smResult = 0

SmoothCall ==
  /\ smPc = "call"
  /\ LET r == smoothScores(smHeap, smArgs.scores, smArgs.windowSize) IN
       /\ smHeap' = r.heap
       /\ smResult' = r.ref
  /\ smPc' = "done"
  /\ UNCHANGED <<smArgs, smBefore, segVars, scVars, dlVars, pipeVars, stVars,
                 moreVars>>

(***************************************************************************)
(* Remote fetcher                                                          *)
(***************************************************************************)
MaxMaxBytes == 2
MaxBody == 3

DefaultRedirects == 2

ALLOWED_VIDEO_MIME_TYPES == {"video/mp4", "video/webm", "video/quicktime", "video/x-msvideo"}
ALLOWED_VIDEO_EXTENSIONS == {".mp4", ".webm", ".mov", ".avi"}

\* Errors are values [cls, statusCode, message]; NoErr stands for "no error".
NoErr == [cls |-> "none", statusCode |-> 0, message |-> ""]

\* new VideoDownloadError(message, statusCode = 400)
VideoDownloadError(message, statusCode) ==
  [cls |-> "VideoDownloadError", statusCode |-> statusCode, message |-> message]

\* new URL(videoUrl) on a string that is not a URL throws a TypeError
InvalidUrlError == [cls |-> "TypeError", statusCode |-> 0, message |-> "Invalid URL"]

\* an error emitted by the response or by the write stream, passed on as it is
StreamError(message) == [cls |-> "Error", statusCode |-> 0, message |-> message]

\* extensions path.extname(url.pathname) can return, before lower-casing
UrlExts == {".mp4", ".MP4", ".webm", ".mov", ".avi", ".bin", ""}

\* String.prototype.toLowerCase on the strings of the model
ToLowerCase(s) ==
  CASE s = ".MP4" -> ".mp4"
    [] s = "VIDEO/MP4" -> "video/mp4"
    [] OTHER -> s

\* Content-Type header values; "" stands for a missing header
ContentTypes == {"", "video/mp4", "video/webm", "video/quicktime", "video/x-msvideo",
                 "video/ogg", "VIDEO/MP4; codecs=avc1", "application/octet-stream",
                 "text/plain"}

\* contentType.includes(sub), on the raw header value
Includes(contentType, sub) ==
  CASE sub = "webm" -> contentType = "video/webm"
    [] sub = "quicktime" -> contentType = "video/quicktime"
    [] sub = "x-msvideo" -> contentType = "video/x-msvideo"
    [] OTHER -> FALSE

\* contentType.split(';')[0].trim()
FirstField(contentType) ==
  IF contentType = "VIDEO/MP4; codecs=avc1" THEN "VIDEO/MP4" ELSE contentType

\* normalizedType.startsWith('video/')
StartsWithVideo(t) ==
  t \in {"video/mp4", "video/webm", "video/quicktime", "video/x-msvideo", "video/ogg"}

NormalizedType(contentType) ==
  IF contentType # "" THEN ToLowerCase(FirstField(contentType)) ELSE ""

inferExtension(url, contentType) ==
  LET ext == ToLowerCase(url.ext) IN
  IF ext \in ALLOWED_VIDEO_EXTENSIONS THEN ext
  ELSE IF contentType # "" /\ Includes(contentType, "webm") THEN ".webm"
  ELSE IF contentType # "" /\ Includes(contentType, "quicktime") THEN ".mov"
  ELSE IF contentType # "" /\ Includes(contentType, "x-msvideo") THEN ".avi"
  ELSE ".mp4"

isAllowedVideo(contentType, ext) ==
  LET normalizedType == NormalizedType(contentType) IN
  IF normalizedType # ""
  THEN IF StartsWithVideo(normalizedType) \/ normalizedType \in ALLOWED_VIDEO_MIME_TYPES
       THEN TRUE
       ELSE IF normalizedType = "application/octet-stream" /\ ext \in ALLOWED_VIDEO_EXTENSIONS
            THEN TRUE
            ELSE FALSE
  ELSE ext \in ALLOWED_VIDEO_EXTENSIONS

\* URLs: a string that does not parse, or a parsed URL with protocol and path extension
BadUrl == [parsable |-> FALSE, protocol |-> "", ext |-> ""]
Url(protocol, ext) == [parsable |-> TRUE, protocol |-> protocol, ext |-> ext]
CallUrls == {BadUrl} \cup {Url(p, e) : p \in {"http:", "https:", "ftp:"}, e \in UrlExts}

\* Location headers: absent, a value new URL(location, base) rejects, or a URL
NoLocation == [kind |-> "none", url |-> BadUrl]
MalformedLocation == [kind |-> "malformed", url |-> BadUrl]
Locations == {MalformedLocation} \cup
             {[kind |-> "url", url |-> Url(p, e)] : p \in {"http:", "ftp:"}, e \in {".mp4", ".bin"}}

NoResp == [status |-> 0, location |-> NoLocation, contentType |-> "", hasLength |-> FALSE, body |-> 0]

\* What a server can answer: a redirect, an error status, or a body with headers.
\* A declared Content-Length is the length of the body.
Responses ==
  {[status |-> 302, location |-> l, contentType |-> "", hasLength |-> FALSE, body |-> 0] :
     l \in Locations}
  \cup {[status |-> 404, location |-> NoLocation, contentType |-> "video/mp4",
         hasLength |-> FALSE, body |-> 0]}
  \cup [status : {200}, location : {NoLocation}, contentType : ContentTypes,
        hasLength : BOOLEAN, body : 0..MaxBody]
  \cup {[status |-> 304, location |-> NoLocation, contentType |-> "", hasLength |-> FALSE,
         body |-> 0]}

DlArgsSet == [url : CallUrls, destinationDir : {"uploads/inputs", "tmp"},
              maxBytes : 1..MaxMaxBytes]

NoDlArgs == [url |-> BadUrl, destinationDir |-> "", maxBytes |-> 0]
NoHop == [url |-> BadUrl, destinationDir |-> "", maxBytes |-> 0, redirectsLeft |-> 0]

\* the outermost call: redirectsLeft takes its default
FirstHop(a) == [url |-> a.url, destinationDir |-> a.destinationDir, maxBytes |-> a.maxBytes,
                redirectsLeft |-> DefaultRedirects]

\* downloadVideoFromUrl(redirectUrl, destinationDir, maxBytes, redirectsLeft - 1)
RedirectHop(h, url) == [url |-> url, destinationDir |-> h.destinationDir,
                        maxBytes |-> h.maxBytes, redirectsLeft |-> h.redirectsLeft - 1]

\* if (redirectsLeft <= 0)
TooManyRedirectsOffByOne(h) == h.redirectsLeft < 0
TooManyRedirects(h) == h.redirectsLeft <= 0

IsRedirect(r) == r.status >= 300 /\ r.status < 400 /\ r.location.kind # "none"

\* declaredLength && declaredLength > maxBytes
DeclaredTooLarge(r, maxBytes) == r.hasLength /\ r.body # 0 /\ r.body > maxBytes

SizeError == VideoDownloadError("File exceeds size limit", 400)
RedirectError == VideoDownloadError("Too many redirects while downloading video", 400)
SchemeError == VideoDownloadError("Only HTTP(S) URLs are supported", 400)
HttpError == VideoDownloadError("Unable to download video from provided link", 400)
TypeNotAllowedError == VideoDownloadError("The provided link must point directly to a video file", 400)
RequestFailedError == VideoDownloadError("Unable to download video from provided link", 502)

DlIdle ==
  /\ dlPc = "idle" /\ dlArgs = NoDlArgs /\ hop = NoHop /\ requests = 0 /\ redirectsSeen = 0
  /\ resp = NoResp /\ promise = "pending" /\ settleCount = 0 /\ dlError = NoErr
  /\ settled = FALSE /\ downloaded = 0 /\ bodyLeft = 0 /\ resState = "none"
  /\ fsOpen = "none" /\ fsEnded = FALSE /\ fsDestroyed = FALSE /\ fileExists = FALSE
  /\ fileExt = ""

\* reject(err) on the promise returned to the caller; a settled promise ignores it
Reject(err) ==
  /\ promise' = IF promise = "pending" THEN "rejected" ELSE promise
  /\ dlError' = IF promise = "pending" THEN err ELSE dlError
  /\ settleCount' = settleCount + 1

\* resolve(filePath)
Resolve ==
  /\ promise' = IF promise = "pending" THEN "resolved" ELSE promise
  /\ dlError' = dlError
  /\ settleCount' = settleCount + 1

\* const fail = (err) => { if (settled) return; settled = true; unlink if exists; reject(err) }
FailUnguarded(err) ==
  /\ settled' = TRUE
  /\ fileExists' = FALSE
  /\ Reject(err)
Fail(err) ==
  IF settled
  THEN UNCHANGED <<settled, fileExists, promise, dlError, settleCount>>
  ELSE /\ settled' = TRUE
       /\ fileExists' = FALSE
       /\ Reject(err)

\* const succeed = () => { if (settled) return; settled = true; resolve(filePath) }
Succeed ==
  IF settled
  THEN UNCHANGED <<settled, promise, dlError, settleCount>>
  ELSE /\ settled' = TRUE
       /\ Resolve

\* Variables of the streaming phase that an action before it leaves alone
streamVars == <<settled, downloaded, bodyLeft, resState, fsOpen, fsEnded, fsDestroyed,
                fileExists, fileExt>>

\* Lines 67-76: parse the URL, check the protocol, issue the request.
DlCall ==
  /\ dlPc = "call"
  /\ IF ~hop.url.parsable
     THEN /\ Reject(InvalidUrlError)
          /\ dlPc' = "done"
          /\ UNCHANGED requests
     ELSE IF hop.url.protocol \notin {"http:", "https:"}
          THEN /\ Reject(SchemeError)
               /\ dlPc' = "done"
               /\ UNCHANGED requests
          ELSE /\ requests' = requests + 1
               /\ dlPc' = "awaitResponse"
               /\ UNCHANGED <<promise, dlError, settleCount>>
  /\ UNCHANGED <<dlArgs, hop, redirectsSeen, resp, streamVars, segVars, pipeVars, stVars, scVars, smVars, moreVars>>

\* Line 153: request.on('error'), before a response has arrived.
RequestError ==
  /\ dlPc = "awaitResponse"
  /\ Reject(RequestFailedError)
  /\ dlPc' = "done"
  /\ UNCHANGED <<dlArgs, hop, requests, redirectsSeen, resp, streamVars, segVars, pipeVars, stVars, scVars, smVars, moreVars>>

\* Lines 77-89: a 3xx response with a Location header.
OnRedirect ==
  /\ dlPc = "awaitResponse"
  /\ \E r \in Responses :
       /\ IsRedirect(r)
       /\ resp' = r
       /\ redirectsSeen' = redirectsSeen + 1
       /\ IF TooManyRedirects(hop)
          THEN /\ Reject(RedirectError)
               /\ dlPc' = "done"
               /\ UNCHANGED hop
          ELSE IF r.location.kind = "malformed"
               THEN \* new URL(location, urlObj) throws inside the response callback
                    /\ dlPc' = "crashed"
                    /\ UNCHANGED <<hop, promise, dlError, settleCount>>
               ELSE /\ hop' = RedirectHop(hop, r.location.url)
                    /\ dlPc' = "call"
                    /\ UNCHANGED <<promise, dlError, settleCount>>
  /\ UNCHANGED <<dlArgs, requests, streamVars, segVars, pipeVars, stVars, scVars, smVars, moreVars>>

\* Lines 91-113: a response that is refused before any file is created.
OnRefused ==
  /\ dlPc = "awaitResponse"
  /\ \E r \in Responses :
       /\ ~IsRedirect(r)
       /\ resp' = r
       /\ LET ext == inferExtension(hop.url, r.contentType) IN
          \/ /\ r.status >= 400
             /\ Reject(HttpError)
          \/ /\ r.status < 400
             /\ ~isAllowedVideo(r.contentType, ext)
             /\ Reject(TypeNotAllowedError)
          \/ /\ r.status < 400
             /\ isAllowedVideo(r.contentType, ext)
             /\ DeclaredTooLarge(r, hop.maxBytes)
             /\ Reject(SizeError)
  /\ dlPc' = "done"
  /\ UNCHANGED <<dlArgs, hop, requests, redirectsSeen, streamVars, segVars, pipeVars, stVars, scVars, smVars, moreVars>>

\* Lines 97-150: the response is accepted; the write stream is created and piped.
OnAccepted ==
  /\ dlPc = "awaitResponse"
  /\ \E r \in Responses :
       /\ ~IsRedirect(r)
       /\ r.status < 400
       /\ LET ext == inferExtension(hop.url, r.contentType) IN
          /\ isAllowedVideo(r.contentType, ext)
          /\ ~DeclaredTooLarge(r, hop.maxBytes)
          /\ fileExt' = ext
       /\ resp' = r
       /\ bodyLeft' = r.body
  /\ settled' = FALSE
  /\ downloaded' = 0
  /\ fsOpen' = "opening"
  /\ resState' = "flowing"
  /\ dlPc' = "streaming"
  /\ UNCHANGED <<dlArgs, hop, requests, redirectsSeen, promise, settleCount, dlError,
                 fsEnded, fsDestroyed, fileExists, segVars, pipeVars, stVars, scVars, smVars, moreVars>>

\* fs.open of the write stream completes: the file is created.  A stream destroyed
\* while it was opening closes the descriptor as soon as it has it.
FileOpen ==
  /\ dlPc = "streaming"
  /\ fsOpen = "opening"
  /\ fileExists' = TRUE
  /\ fsOpen' = IF fsDestroyed THEN "closed" ELSE "open"
  /\ UNCHANGED <<dlPc, dlArgs, hop, requests, redirectsSeen, resp, promise, settleCount,
                 dlError, settled, downloaded, bodyLeft, resState, fsEnded, fsDestroyed,
                 fileExt, segVars, pipeVars, stVars, scVars, smVars, moreVars>>

\* Lines 136-143: a chunk of n bytes arrives.
ResData ==
  /\ dlPc = "streaming"
  /\ resState = "flowing"
  /\ \E n \in 1..bodyLeft :
       /\ downloaded' = downloaded + n
       /\ bodyLeft' = bodyLeft - n
       /\ IF downloaded + n > hop.maxBytes
          THEN /\ Fail(SizeError)
               /\ resState' = "destroyed"
               /\ fsDestroyed' = TRUE
               /\ fsOpen' = IF fsOpen = "open" THEN "closed" ELSE fsOpen
          ELSE UNCHANGED <<settled, fileExists, promise, dlError, settleCount, resState,
                           fsDestroyed, fsOpen>>
  /\ UNCHANGED <<dlPc, dlArgs, hop, requests, redirectsSeen, resp, fsEnded, fileExt,
                 segVars, pipeVars, stVars, scVars, smVars, moreVars>>

\* The body is complete: 'end' on the response; the pipe ends the write stream.
ResEnd ==
  /\ dlPc = "streaming"
  /\ resState = "flowing"
  /\ bodyLeft = 0
  /\ resState' = "ended"
  /\ fsEnded' = IF fsDestroyed THEN fsEnded ELSE TRUE
  /\ UNCHANGED <<dlPc, dlArgs, hop, requests, redirectsSeen, resp, promise, settleCount,
                 dlError, settled, downloaded, bodyLeft, fsOpen, fsDestroyed, fileExists,
                 fileExt, segVars, pipeVars, stVars, scVars, smVars, moreVars>>

\* Line 145: res.on('error', fail): the connection breaks in the middle of the body.
\* The pipe does not end or destroy the write stream.
ResError ==
  /\ dlPc = "streaming"
  /\ resState = "flowing"
  /\ Fail(StreamError("aborted"))
  /\ resState' = "destroyed"
  /\ UNCHANGED <<dlPc, dlArgs, hop, requests, redirectsSeen, resp, downloaded, bodyLeft,
                 fsOpen, fsEnded, fsDestroyed, fileExt, segVars, pipeVars, stVars, scVars, smVars, moreVars>>

\* Line 146: fileStream.on('error', fail): the open or a write fails; the stream
\* destroys itself (autoDestroy) and the pipe is undone.
FileError ==
  /\ dlPc = "streaming"
  /\ fsOpen \in {"opening", "open"}
  /\ ~fsDestroyed
  /\ Fail(StreamError(IF fsOpen = "opening" THEN "open failed" ELSE "write failed"))
  /\ fsDestroyed' = TRUE
  /\ fsOpen' = "closed"
  /\ UNCHANGED <<dlPc, dlArgs, hop, requests, redirectsSeen, resp, downloaded, bodyLeft,
                 resState, fsEnded, fileExt, segVars, pipeVars, stVars, scVars, smVars, moreVars>>

\* Line 148: fileStream.on('finish', succeed), after end() and the last write.
FileFinish ==
  /\ dlPc = "streaming"
  /\ fsOpen = "open"
  /\ fsEnded
  /\ ~fsDestroyed
  /\ Succeed
  /\ fsOpen' = "closed"
  /\ UNCHANGED <<dlPc, dlArgs, hop, requests, redirectsSeen, resp, downloaded, bodyLeft,
                 resState, fsEnded, fsDestroyed, fileExists, fileExt, segVars, pipeVars, stVars, scVars, smVars, moreVars>>

(***************************************************************************)
(* Orchestrator                                                            *)
(***************************************************************************)
MaxSegments == 2

\* new NoSegmentsDetectedError(segments)
NoSegmentsDetectedError(segs) ==
  [cls |-> "NoSegmentsDetectedError", statusCode |-> 0,
   message |-> "No motion segments detected", segments |-> segs]

NoVideoError ==
  VideoDownloadError("No video provided. Upload a file or provide a public link.", 400)

\* an Error thrown by a collaborator (ffprobe, ffmpeg, fs, the blob client)
PlainError(message) == [cls |-> "Error", statusCode |-> 0, message |-> message]

\* what downloadVideoFromUrl can reject with
DownloadErrors == {SizeError, HttpError, RequestFailedError, InvalidUrlError,
                   StreamError("aborted")}
SaveInputErrors == {PlainError("saveInput failed")}
DetectErrors == {PlainError("No video stream found"), PlainError("ffmpeg extraction failed")}
TrimErrors == {PlainError("ffmpeg trim failed")}
SaveOutputErrors == {PlainError("saveOutput failed")}

\* lists detectMotionSegments can return
DetectResults ==
  {[k \in 1..n |-> [start |-> 2 * (k - 1), end |-> 2 * (k - 1) + 1]] : n \in 0..MaxSegments}

\* values of the optional string parameters videoPath and videoUrl
OptionalStrings == {"undefined", "", "given"}

\* the truthiness test of `!inputPath` and `params.videoUrl`
TruthyUnlessUndefined(v) == v # "undefined"
Truthy(v) == v \notin {"undefined", ""}

\* outputFilename: whether the caller supplied one; outputIsInput: the supplied name,
\* joined to storage.getLocalOutputDir() at line 415, is the path passed as videoPath
ParamsSet ==
  {p \in [videoPath : OptionalStrings, videoUrl : OptionalStrings,
          outputFilename : BOOLEAN, outputIsInput : BOOLEAN, storage : {"local", "blob"}] :
     p.outputIsInput => (p.outputFilename /\ Truthy(p.videoPath))}

NoParams == [videoPath |-> "undefined", videoUrl |-> "undefined", outputFilename |-> FALSE,
             outputIsInput |-> FALSE, storage |-> "local"]
NoCalls == [download |-> 0, saveInput |-> 0, detect |-> 0, trim |-> 0, saveOutput |-> 0]
\* input: the file the caller passed as videoPath; downloaded: the file at
\* downloadedPath; output: the file at outputPath; storedInput / storedOutput: what
\* backs the stored artifact ("none", "file" = the local file itself, "copy", "blob")
EmptyDisk == [input |-> FALSE, downloaded |-> FALSE, output |-> FALSE,
              storedInput |-> "none", storedOutput |-> "none"]

PipeIdle ==
  /\ pipePc = "idle" /\ params = NoParams /\ inputPath = "none"
  /\ downloadedPath = FALSE /\ outputPath = FALSE /\ disk = EmptyDisk
  /\ segments = <<>> /\ calls = NoCalls /\ completed = NoCalls
  /\ raised = NoErr /\ thrown = NoErr

StartedTwice(c, stage) == [c EXCEPT ![stage] = @ + 2]
Started(c, stage) == [c EXCEPT ![stage] = @ + 1]

\* throw err (line 427): the caught error is thrown again as it is
RethrowWrapped(err) ==
  IF err.cls \in {"VideoDownloadError", "NoSegmentsDetectedError"}
  THEN err
  ELSE [cls |-> "PipelineError", statusCode |-> 0, message |-> "Failed to trim video",
        cause |-> err]
Rethrow(err) == err

\* fs.existsSync(outputPath) and fs.unlinkSync(outputPath), lines 421-422: the file
\* at outputPath is the caller's file when the supplied name points at it.
ExistsAtOutputPath(d) == IF params.outputIsInput THEN d.input ELSE d.output
UnlinkOutputPath(d) ==
  IF params.outputIsInput THEN [d EXCEPT !.input = FALSE] ELSE [d EXCEPT !.output = FALSE]

\* Lines 421-426: unlink the output file and the downloaded file when their paths
\* are set and the files exist.  unlinkSync of an existing file of the run succeeds.
CleanupKeepDownloaded(d, outSet, dlSet) ==
  IF outSet /\ ExistsAtOutputPath(d) THEN UnlinkOutputPath(d) ELSE d
Cleanup(d, outSet, dlSet) ==
  LET o == IF outSet /\ ExistsAtOutputPath(d) THEN UnlinkOutputPath(d) ELSE d
  IN  [o EXCEPT !.downloaded = IF dlSet /\ d.downloaded THEN FALSE ELSE @]

\* if (segments.length === 0)
NoSegmentsNever(segs) == FALSE
NoSegments(segs) == Len(segs) = 0

\* storage.saveInput / saveOutput in local mode keep the file where it is when it
\* already lies in the storage directory, and copy it otherwise; blob mode uploads.
\* A download lands in storage.getLocalInputDir(), the output in getLocalOutputDir().
StoredAs(mode, inStorageDir) ==
  IF mode = "blob" THEN "blob" ELSE IF inStorageDir THEN "file" ELSE "copy"

\* The catch block, lines 420-428, entered with err; op is the value of outputPath.
Catch(err, op) ==
  /\ disk' = Cleanup(disk, op, downloadedPath)
  /\ raised' = err
  /\ thrown' = Rethrow(err)
  /\ pipePc' = "failed"

\* Lines 389-407 up to the first await.
PipeStart ==
  /\ pipePc = "start"
  /\ IF Truthy(params.videoPath)
     THEN /\ inputPath' = "caller"
          /\ calls' = Started(calls, "saveInput")
          /\ pipePc' = "saveInput"
          /\ UNCHANGED <<raised, thrown>>
     ELSE IF Truthy(params.videoUrl)
          THEN /\ calls' = Started(calls, "download")
               /\ pipePc' = "download"
               /\ UNCHANGED <<inputPath, raised, thrown>>
          ELSE /\ raised' = NoVideoError
               /\ thrown' = NoVideoError
               /\ pipePc' = "failed"
               /\ UNCHANGED <<inputPath, calls>>
  /\ UNCHANGED <<params, downloadedPath, outputPath, disk, segments, completed,
                 segVars, dlVars, stVars, scVars, smVars, moreVars>>

\* Lines 399-407: the download resolved with the path of the new file.
DownloadResolved ==
  /\ pipePc = "download"
  /\ disk' = [disk EXCEPT !.downloaded = TRUE]
  /\ inputPath' = "downloaded"
  /\ downloadedPath' = TRUE
  /\ completed' = Started(completed, "download")
  /\ calls' = Started(calls, "saveInput")
  /\ pipePc' = "saveInput"
  /\ UNCHANGED <<params, outputPath, segments, raised, thrown, segVars, dlVars, stVars, scVars, smVars, moreVars>>

\* Line 399: the download rejected; this is outside the try block.
DownloadRejected ==
  /\ pipePc = "download"
  /\ \E e \in DownloadErrors :
       /\ raised' = e
       /\ thrown' = e
  /\ pipePc' = "failed"
  /\ UNCHANGED <<params, inputPath, downloadedPath, outputPath, disk, segments, calls,
                 completed, segVars, dlVars, stVars, scVars, smVars, moreVars>>

\* Lines 407-408: saveInput returned; detection starts.
SaveInputResolved ==
  /\ pipePc = "saveInput"
  /\ disk' = [disk EXCEPT !.storedInput =
                StoredAs(params.storage, inputPath = "downloaded")]
  /\ completed' = Started(completed, "saveInput")
  /\ calls' = Started(calls, "detect")
  /\ pipePc' = "detect"
  /\ UNCHANGED <<params, inputPath, downloadedPath, outputPath, segments, raised, thrown,
                 segVars, dlVars, stVars, scVars, smVars, moreVars>>

SaveInputRejected ==
  /\ pipePc = "saveInput"
  /\ \E e \in SaveInputErrors : Catch(e, outputPath)
  /\ UNCHANGED <<params, inputPath, downloadedPath, outputPath, segments, calls,
                 completed, segVars, dlVars, stVars, scVars, smVars, moreVars>>

\* Lines 408-416: detection returned; empty check, output path, trimming starts.
DetectResolved ==
  /\ pipePc = "detect"
  /\ \E segs \in DetectResults :
       /\ segments' = segs
       /\ completed' = Started(completed, "detect")
       /\ IF NoSegments(segs)
          THEN /\ Catch(NoSegmentsDetectedError(segs), outputPath)
               /\ UNCHANGED <<outputPath, calls>>
          ELSE /\ outputPath' = TRUE
               /\ calls' = Started(calls, "trim")
               /\ pipePc' = "trim"
               /\ UNCHANGED <<disk, raised, thrown>>
  /\ UNCHANGED <<params, inputPath, downloadedPath, segVars, dlVars, stVars, scVars, smVars, moreVars>>

DetectRejected ==
  /\ pipePc = "detect"
  /\ \E e \in DetectErrors : Catch(e, outputPath)
  /\ UNCHANGED <<params, inputPath, downloadedPath, outputPath, segments, calls,
                 completed, segVars, dlVars, stVars, scVars, smVars, moreVars>>

\* ffmpeg, started by trimVideoToSegments, creates the output file while it runs; it
\* refuses to start when the output path is its input path, and the call rejects.
TrimWritesOutput ==
  /\ pipePc = "trim"
  /\ calls.trim > 0
  /\ ~params.outputIsInput
  /\ ~disk.output
  /\ disk' = [disk EXCEPT !.output = TRUE]
  /\ UNCHANGED <<pipePc, params, inputPath, downloadedPath, outputPath, segments, calls,
                 completed, raised, thrown, segVars, dlVars, stVars, scVars, smVars, moreVars>>

\* Lines 416-417: trimming returned; saveOutput starts.
TrimResolved ==
  /\ pipePc = "trim"
  /\ disk.output
  /\ completed' = Started(completed, "trim")
  /\ calls' = Started(calls, "saveOutput")
  /\ pipePc' = "saveOutput"
  /\ UNCHANGED <<params, inputPath, downloadedPath, outputPath, disk, segments, raised,
                 thrown, segVars, dlVars, stVars, scVars, smVars, moreVars>>

TrimRejected ==
  /\ pipePc = "trim"
  /\ \E e \in TrimErrors : Catch(e, outputPath)
  /\ UNCHANGED <<params, inputPath, downloadedPath, outputPath, segments, calls,
                 completed, segVars, dlVars, stVars, scVars, smVars, moreVars>>

\* Lines 417-419: saveOutput returned; the result is returned.
SaveOutputResolved ==
  /\ pipePc = "saveOutput"
  /\ disk' = [disk EXCEPT !.storedOutput = StoredAs(params.storage, TRUE)]
  /\ completed' = Started(completed, "saveOutput")
  /\ pipePc' = "done"
  /\ UNCHANGED <<params, inputPath, downloadedPath, outputPath, segments, calls, raised,
                 thrown, segVars, dlVars, stVars, scVars, smVars, moreVars>>

SaveOutputRejected ==
  /\ pipePc = "saveOutput"
  /\ \E e \in SaveOutputErrors : Catch(e, outputPath)
  /\ UNCHANGED <<params, inputPath, downloadedPath, outputPath, segments, calls,
                 completed, segVars, dlVars, stVars, scVars, smVars, moreVars>>

(***************************************************************************)
(* Storage sink                                                            *)
(***************************************************************************)
MaxOps == 2

\* options.connectionString / process.env.AZURE_STORAGE_CONNECTION_STRING:
\* not set, empty, a connection string with AccountName and AccountKey, or one
\* without them (for instance a shared-access-signature connection string)
ConnStrings == {"undefined", "", "withKey", "noKey"}
EnvConnStrings == {"undefined", "withKey"}

StOptionsSet == [connectionString : ConnStrings, env : EnvConnStrings]
NoStOptions == [connectionString |-> "undefined", env |-> "undefined"]

\* options.connectionString ?? process.env.AZURE_STORAGE_CONNECTION_STRING
ConnectionString(o) ==
  IF o.connectionString # "undefined" THEN o.connectionString ELSE o.env

\* parseSharedKey(connectionString) returns a credential or undefined
parseSharedKey(cs) == cs = "withKey"

Apis == {"saveInput", "saveOutput", "listInputs", "listOutputs", "outputExists",
         "getOutputUrl"}

\* the VideoKind an operation works on
KindOf(api) == IF api \in {"saveInput", "listInputs"} THEN "input" ELSE "output"

\* The test that sends an operation to the blob container: save, list and getUrl
\* test `this.containerClient && this.sharedKey`, exists tests `this.containerClient`.
UsesBlob(api, cc, sk) ==
  IF api = "outputExists" THEN cc ELSE cc /\ sk

\* `await this.containerReady` opens every blob branch
AwaitsReadyExceptExists(api) == api # "outputExists"
AwaitsReady(api) == TRUE

\* savedBefore: a saveOutput had succeeded when the operation was called; caught:
\* the operation swallowed an error of its blob call
NoOp == [api |-> "none", pc |-> "idle", backend |-> "none", result |-> "none",
         savedBefore |-> FALSE, caught |-> FALSE]

OutputSaved(os) ==
  \E j \in 1..MaxOps :
    os[j].api = "saveOutput" /\ os[j].pc = "done" /\ os[j].result = "stored"
NoFiles == [input |-> FALSE, output |-> FALSE]

StIdle ==
  /\ stPc = "idle" /\ stOptions = NoStOptions /\ containerClient = FALSE
  /\ sharedKey = FALSE /\ containerReady = "none" /\ createCalls = 0
  /\ localFiles = NoFiles /\ blobs = NoFiles /\ ops = [i \in 1..MaxOps |-> NoOp]

\* Lines 107-126: the constructor.
StConstruct ==
  /\ stPc = "new"
  /\ LET cs == ConnectionString(stOptions) IN
     IF cs \notin {"undefined", ""}
     THEN /\ containerClient' = TRUE
          /\ sharedKey' = parseSharedKey(cs)
          /\ containerReady' = "pending"
          /\ createCalls' = createCalls + 1
     ELSE UNCHANGED <<containerClient, sharedKey, containerReady, createCalls>>
  /\ stPc' = "ready"
  /\ UNCHANGED <<stOptions, localFiles, blobs, ops, segVars, dlVars, pipeVars, scVars,
                 smVars, moreVars>>

\* createIfNotExists() completes
CreateResolved ==
  /\ containerReady = "pending"
  /\ containerReady' = "resolved"
  /\ UNCHANGED <<stPc, stOptions, containerClient, sharedKey, createCalls, localFiles,
                 blobs, ops, segVars, dlVars, pipeVars, scVars,
                 smVars, moreVars>>

CreateRejected ==
  /\ containerReady = "pending"
  /\ containerReady' = "rejected"
  /\ UNCHANGED <<stPc, stOptions, containerClient, sharedKey, createCalls, localFiles,
                 blobs, ops, segVars, dlVars, pipeVars, scVars,
                 smVars, moreVars>>

\* what a local operation answers, given the directories after the operation
LocalResult(api, files) ==
  CASE api \in {"saveInput", "saveOutput"} -> "stored"
    [] api \in {"listInputs", "listOutputs"} -> IF files[KindOf(api)] THEN "yes" ELSE "no"
    [] api = "outputExists" -> IF files.output THEN "yes" ELSE "no"
    [] OTHER -> "/uploads/processed/"

\* An operation is called.  A blob operation runs up to its first await; a local
\* operation has no await and runs to its end (lines 195-200, 223-240, 255-256, 265).
StartOp ==
  /\ stPc = "ready"
  /\ \E i \in 1..MaxOps, api \in Apis :
       /\ ops[i].pc = "idle"
       /\ \A j \in 1..(i - 1) : ops[j].pc # "idle"
       /\ IF UsesBlob(api, containerClient, sharedKey)
          THEN /\ ops' = [ops EXCEPT ![i] =
                   [api |-> api, backend |-> "blob", result |-> "none",
                    pc |-> IF AwaitsReady(api) THEN "awaitReady" ELSE "blobCall",
                    savedBefore |-> OutputSaved(ops), caught |-> FALSE]]
               /\ UNCHANGED localFiles
          ELSE LET files == IF api \in {"saveInput", "saveOutput"}
                            THEN [localFiles EXCEPT ![KindOf(api)] = TRUE]
                            ELSE localFiles IN
               /\ localFiles' = files
               /\ ops' = [ops EXCEPT ![i] =
                   [api |-> api, backend |-> "local", pc |-> "done",
                    result |-> LocalResult(api, files),
                    savedBefore |-> OutputSaved(ops), caught |-> FALSE]]
  /\ UNCHANGED <<stPc, stOptions, containerClient, sharedKey, containerReady, createCalls,
                 blobs, segVars, dlVars, pipeVars, scVars,
                 smVars, moreVars>>

\* `await this.containerReady` returns: the operation issues its blob call.
OpReady ==
  /\ containerReady = "resolved"
  /\ \E i \in 1..MaxOps :
       /\ ops[i].pc = "awaitReady"
       /\ ops' = [ops EXCEPT ![i].pc = "blobCall"]
  /\ UNCHANGED <<stPc, stOptions, containerClient, sharedKey, containerReady, createCalls,
                 localFiles, blobs, segVars, dlVars, pipeVars, scVars,
                 smVars, moreVars>>

\* `await this.containerReady` throws: the operation fails without a blob call.
OpReadyRejected ==
  /\ containerReady = "rejected"
  /\ \E i \in 1..MaxOps :
       /\ ops[i].pc = "awaitReady"
       /\ ops' = [ops EXCEPT ![i].pc = "failed"]
  /\ UNCHANGED <<stPc, stOptions, containerClient, sharedKey, containerReady, createCalls,
                 localFiles, blobs, segVars, dlVars, pipeVars, scVars,
                 smVars, moreVars>>

\* The blob call of an operation completes (lines 177-192, 206-220, 246-252, 262-263).
OpBlobDone ==
  /\ \E i \in 1..MaxOps :
       /\ ops[i].pc = "blobCall"
       /\ LET api == ops[i].api IN
          CASE api \in {"saveInput", "saveOutput"} ->
                 /\ blobs' = [blobs EXCEPT ![KindOf(api)] = TRUE]
                 /\ ops' = [ops EXCEPT ![i].pc = "done", ![i].result = "stored"]
            [] api \in {"listInputs", "listOutputs"} ->
                 /\ ops' = [ops EXCEPT ![i].pc = "done",
                              ![i].result = IF blobs[KindOf(api)] THEN "yes" ELSE "no"]
                 /\ UNCHANGED blobs
            [] api = "outputExists" ->
                 /\ \E ok \in BOOLEAN :
                      ops' = [ops EXCEPT ![i].pc = "done", ![i].caught = ~ok,
                                ![i].result = IF ok /\ blobs.output THEN "yes" ELSE "no"]
                 /\ UNCHANGED blobs
            [] OTHER ->
                 /\ ops' = [ops EXCEPT ![i].pc = "done", ![i].result = "sas"]
                 /\ UNCHANGED blobs
  /\ UNCHANGED <<stPc, stOptions, containerClient, sharedKey, containerReady, createCalls,
                 localFiles, segVars, dlVars, pipeVars, scVars,
                 smVars, moreVars>>

\* The blob call of a save or a list fails (uploadFile, listBlobsFlat).
OpBlobFailed ==
  /\ \E i \in 1..MaxOps :
       /\ ops[i].pc = "blobCall"
       /\ ops[i].api \in {"saveInput", "saveOutput", "listInputs", "listOutputs"}
       /\ ops' = [ops EXCEPT ![i].pc = "failed"]
  /\ UNCHANGED <<stPc, stOptions, containerClient, sharedKey, containerReady, createCalls,
                 localFiles, blobs, segVars, dlVars, pipeVars, scVars,
                 smVars, moreVars>>

(***************************************************************************)
(* Trimmer                                                                 *)
(***************************************************************************)
MaxTrimTime == 1

TrimRanges == [start : 0..MaxTrimTime, end : 0..MaxTrimTime]
TrimSegmentLists == UNION {[1..n -> TrimRanges] : n \in 0..MaxSegments}

\* the input file as ffprobe sees it, and what lies at outputPath before the call
TrimArgsSet ==
  [segments : TrimSegmentLists,
   input : {"audio", "video-only", "unreadable"},
   outputBefore : {"none", "old"}]
NoTrimArgs == [segments |-> <<>>, input |-> "audio", outputBefore |-> "none"]
NoFilter == [n |-> 0, audio |-> FALSE, maps |-> {}]

TrimIdle ==
  /\ trPc = "idle" /\ trArgs = NoTrimArgs /\ withAudio = FALSE /\ probes = 0 /\ runs = 0
  /\ trOutput = "none" /\ trFilter = NoFilter /\ trError = NoErr

\* segments.length === 0
NeverEmpty(segs) == FALSE
IsEmpty(segs) == Len(segs) = 0

\* Lines 28-32: the entry of trimVideoToSegments, up to the first await.
TrimCall ==
  /\ trPc = "call"
  /\ IF IsEmpty(trArgs.segments)
     THEN /\ trPc' = "rejected"
          /\ trError' = PlainError("No segments provided for trimming")
          /\ UNCHANGED probes
     ELSE /\ trPc' = "probing"
          /\ probes' = probes + 1
          /\ UNCHANGED trError
  /\ UNCHANGED <<trArgs, withAudio, runs, trOutput, trFilter, oldVars, detVars,
                 optVars, updVars>>

\* Lines 7-14 and 34-72: ffprobe has answered (an error counts as no audio), the
\* filter graph is built and the ffmpeg command is started.
ProbeDone ==
  /\ trPc = "probing"
  /\ withAudio' = (trArgs.input = "audio")
  /\ trFilter' = [n |-> Len(trArgs.segments), audio |-> withAudio',
                  maps |-> IF withAudio' THEN {"[outv]", "[outa]"} ELSE {"[outv]"}]
  /\ runs' = runs + 1
  /\ trPc' = "running"
  /\ UNCHANGED <<trArgs, probes, trOutput, trError, oldVars, detVars,
                 optVars, updVars>>

\* ffmpeg opens and writes the output file
FfmpegWrites ==
  /\ trPc = "running"
  /\ trOutput \in {"none", "old"}
  /\ trOutput' = "partial"
  /\ UNCHANGED <<trPc, trArgs, withAudio, probes, runs, trFilter, trError, oldVars,
                 detVars, optVars, updVars>>

\* Line 69: 'end'
FfmpegEnd ==
  /\ trPc = "running"
  /\ trOutput = "partial"
  /\ trOutput' = "file"
  /\ trPc' = "resolved"
  /\ UNCHANGED <<trArgs, withAudio, probes, runs, trFilter, trError, oldVars, detVars,
                 optVars, updVars>>

\* Line 70: 'error'
FfmpegError ==
  /\ trPc = "running"
  /\ trPc' = "rejected"
  /\ trError' = PlainError("ffmpeg exited with an error")
  /\ UNCHANGED <<trArgs, withAudio, probes, runs, trOutput, trFilter, oldVars, detVars,
                 optVars, updVars>>

(***************************************************************************)
(* Detector                                                                *)
(***************************************************************************)
MaxFrames == 3

\* What the call will meet: the probe fails or not, ffmpeg fails before it has
\* opened frames.raw, after `failAfter` frames, or not at all (failAfter = -1), and
\* the read of frames.raw fails or not.
DetectArgsSet ==
  [probeFails : BOOLEAN,
   spawnFails : BOOLEAN,
   frames : 0..MaxFrames,
   failAfter : -1..MaxFrames,
   readFails : BOOLEAN]
NoDetectArgs ==
  [probeFails |-> FALSE, spawnFails |-> FALSE, frames |-> 0, failAfter |-> -1,
   readFails |-> FALSE]

DetectIdle ==
  /\ detPc = "idle" /\ detArgs = NoDetectArgs /\ tmpDir = FALSE /\ rawFile = "none"
  /\ framesWritten = 0 /\ detResult = -1 /\ detError = NoErr

\* fs.unlinkSync(rawFile) inside try/catch: removes the file when it is there
Unlink(file) == "none"

\* Lines 170-173: the finally block.  rmdirSync removes an empty directory only.
FinallyWithoutUnlink(dir, file) == [dir |-> dir /\ file # "none", file |-> file]
Finally(dir, file) ==
  LET afterUnlink == Unlink(file) IN
  [dir |-> dir /\ afterUnlink # "none", file |-> afterUnlink]

\* Line 158: the call, up to `await getVideoMetadata`.
DetectCall ==
  /\ detPc = "call"
  /\ detPc' = "probing"
  /\ UNCHANGED <<detArgs, tmpDir, rawFile, framesWritten, detResult, detError, oldVars,
                 trVars, optVars, updVars>>

\* Line 158: the probe fails; nothing has been created yet.
MetadataRejected ==
  /\ detPc = "probing"
  /\ detArgs.probeFails
  /\ detPc' = "thrown"
  /\ detError' = PlainError("ffprobe failed")
  /\ UNCHANGED <<detArgs, tmpDir, rawFile, framesWritten, detResult, oldVars, trVars,
                 optVars, updVars>>

\* Lines 158-163: the probe answers; the directory is made and ffmpeg is started.
MetadataResolved ==
  /\ detPc = "probing"
  /\ ~detArgs.probeFails
  /\ tmpDir' = TRUE
  /\ detPc' = "extracting"
  /\ UNCHANGED <<detArgs, rawFile, framesWritten, detResult, detError, oldVars, trVars,
                 optVars, updVars>>

\* ffmpeg opens frames.raw and writes one more frame
ExtractWrites ==
  /\ detPc = "extracting"
  /\ ~detArgs.spawnFails
  /\ \/ /\ rawFile = "none"
        /\ rawFile' = "partial"
        /\ UNCHANGED framesWritten
     \/ /\ rawFile = "partial"
        /\ framesWritten < detArgs.frames
        /\ framesWritten # detArgs.failAfter
        /\ framesWritten' = framesWritten + 1
        /\ UNCHANGED rawFile
  /\ UNCHANGED <<detPc, detArgs, tmpDir, detResult, detError, oldVars, trVars,
                 optVars, updVars>>

\* Lines 43-44 and 163-173: extraction fails; the finally block runs and the error
\* leaves the function.
ExtractRejected ==
  /\ detPc = "extracting"
  /\ \/ detArgs.spawnFails /\ rawFile = "none"
     \/ rawFile = "partial" /\ framesWritten = detArgs.failAfter
  /\ LET f == Finally(tmpDir, rawFile) IN
       /\ tmpDir' = f.dir
       /\ rawFile' = f.file
  /\ detPc' = "thrown"
  /\ detError' = PlainError("ffmpeg exited with an error")
  /\ UNCHANGED <<detArgs, framesWritten, detResult, oldVars, trVars,
                 optVars, updVars>>

\* Lines 43 and 164-173: extraction ends; the file is read and scored, the finally
\* block runs and the segments are returned, or the read error leaves the function.
ExtractResolved ==
  /\ detPc = "extracting"
  /\ rawFile = "partial"
  /\ framesWritten = detArgs.frames
  /\ framesWritten # detArgs.failAfter
  /\ LET f == Finally(tmpDir, "file") IN
       /\ tmpDir' = f.dir
       /\ rawFile' = f.file
  /\ IF detArgs.readFails
     THEN /\ detPc' = "thrown"
          /\ detError' = PlainError("readFileSync failed")
          /\ UNCHANGED detResult
     ELSE /\ detPc' = "returned"
          /\ detResult' = framesWritten
          /\ UNCHANGED detError
  /\ UNCHANGED <<detArgs, framesWritten, oldVars, trVars,
                 optVars, updVars>>

(***************************************************************************)
(* Request options                                                         *)
(***************************************************************************)
\* A JavaScript number: NaN, an infinity, or a finite value counted in hundredths.
NaN == [kind |-> "nan", val |-> 0]
Infinity == [kind |-> "inf", val |-> 0]
Fin(hundredths) == [kind |-> "finite", val |-> hundredths]

\* what a field of an untyped body can hold; "undefined" stands for a missing field
RawValues == {"undefined", "abc", "0", "2.5", "-1", "Infinity"}

OptionFields == {"sampleFps", "threshold", "minSegmentLength", "preRoll", "postRoll",
                 "smoothingWindow"}

BodySet == [OptionFields -> RawValues]
NoBody == [f \in OptionFields |-> "undefined"]
NoOptions == [f \in OptionFields |-> NaN]

\* parseFloat(raw)
parseFloat(raw) ==
  CASE raw = "0" -> Fin(0)
    [] raw = "2.5" -> Fin(250)
    [] raw = "-1" -> Fin(-100)
    [] raw = "Infinity" -> Infinity
    [] OTHER -> NaN

\* parseInt(raw, 10): the leading integer digits, NaN when there are none
parseInt(raw) ==
  CASE raw = "0" -> Fin(0)
    [] raw = "2.5" -> Fin(200)
    [] raw = "-1" -> Fin(-100)
    [] OTHER -> NaN

\* the defaults written in the option literals
Defaults ==
  [sampleFps |-> Fin(200), threshold |-> Fin(2), minSegmentLength |-> Fin(300),
   preRoll |-> Fin(100), postRoll |-> Fin(100), smoothingWindow |-> Fin(300)]

\* x || d: d when x is NaN or 0
OrDefault(x, d) == IF x.kind = "nan" \/ (x.kind = "finite" /\ x.val = 0) THEN d ELSE x

\* the option literal of the route and of the function trigger
ReadOptions(body) ==
  [f \in OptionFields |->
     OrDefault(IF f = "smoothingWindow" THEN parseInt(body[f]) ELSE parseFloat(body[f]),
               Defaults[f])]

OptionsIdle == optPc = "idle" /\ optBody = NoBody /\ optOptions = NoOptions

OptionsCall ==
  /\ optPc = "call"
  /\ optOptions' = ReadOptions(optBody)
  /\ optPc' = "done"
  /\ UNCHANGED <<optBody, oldVars, trVars, detVars, updVars>>

(***************************************************************************)
(* Uploads directory                                                       *)
(***************************************************************************)
MaxCalls == 3

\* values of process.env.UPLOADS_DIR
EnvDirs == {"undefined", "", "/data/a", "/data/b"}

\* path.resolve(process.env.UPLOADS_DIR ?? path.join(process.cwd(), 'uploads'))
UploadsDirOf(env) ==
  CASE env = "undefined" -> "/cwd/uploads"
    [] env = "" -> "/cwd"
    [] OTHER -> env

NoUpdResult == [kind |-> "none", path |-> "undefined"]

UploadsIdle ==
  /\ cachedUploadsDir = "undefined" /\ envUploadsDir = "undefined" /\ mkdirCalls = 0
  /\ updCalls = 0 /\ updResult = NoUpdResult

\* if (cachedUploadsDir)
CachedNever(cached) == FALSE
Cached(cached) == cached \notin {"undefined", ""}

\* Lines 6-24: resolveUploadsDir(); mkdirSync succeeds or throws.
ResolveCall ==
  /\ updCalls < MaxCalls
  /\ updCalls' = updCalls + 1
  /\ IF Cached(cachedUploadsDir)
     THEN /\ updResult' = [kind |-> "returned", path |-> cachedUploadsDir]
          /\ UNCHANGED <<cachedUploadsDir, mkdirCalls>>
     ELSE LET uploadsDir == UploadsDirOf(envUploadsDir) IN
          /\ mkdirCalls' = mkdirCalls + 1
          /\ \E mkdirThrows \in BOOLEAN :
               IF mkdirThrows
               THEN /\ updResult' = [kind |-> "thrown", path |-> uploadsDir]
                    /\ UNCHANGED cachedUploadsDir
               ELSE /\ cachedUploadsDir' = uploadsDir
                    /\ updResult' = [kind |-> "returned", path |-> uploadsDir]
  /\ UNCHANGED <<envUploadsDir, oldVars, trVars, detVars, optVars>>

\* the environment variable is changed between two calls
SetEnv ==
  /\ updCalls < MaxCalls
  /\ \E v \in EnvDirs :
       /\ v # envUploadsDir
       /\ envUploadsDir' = v
  /\ UNCHANGED <<cachedUploadsDir, mkdirCalls, updCalls, updResult, oldVars, trVars,
                 detVars, optVars>>

(***************************************************************************)
(* Specifications                                                          *)
(***************************************************************************)
OldIdle == SegIdle /\ ScoreIdle /\ SmoothIdle /\ DlIdle /\ PipeIdle /\ StIdle
MoreIdle == TrimIdle /\ DetectIdle /\ OptionsIdle /\ UploadsIdle

InitSeg ==
  /\ segPc = "call" /\ segArgs \in SegArgsSet /\ segResult = <<>>
  /\ segStages = NoStages
  /\ ScoreIdle /\ SmoothIdle /\ DlIdle /\ PipeIdle /\ StIdle /\ MoreIdle

NextSeg == SegCall

SpecSeg == InitSeg /\ [][NextSeg]_vars

InitSegRuns ==
  /\ segPc = "call" /\ segArgs \in RunArgsSet /\ segResult = <<>>
  /\ segStages = NoStages
  /\ ScoreIdle /\ SmoothIdle /\ DlIdle /\ PipeIdle /\ StIdle /\ MoreIdle

SpecSegRuns == InitSegRuns /\ [][NextSeg]_vars

InitScore ==
  /\ scPc = "call" /\ scArgs \in ScoreArgsSet /\ scResult = <<>>
  /\ SegIdle /\ SmoothIdle /\ DlIdle /\ PipeIdle /\ StIdle /\ MoreIdle

NextScore == ScoreCall

SpecScore == InitScore /\ [][NextScore]_vars

InitSmooth ==
  /\ smPc = "call" /\ smArgs \in SmoothArgsSet
  /\ \E xs \in ScoreLists : smHeap = <<[k \in 1..Len(xs) |-> Num(xs[k])]>>
  /\ smBefore = smHeap /\ smResult = 0
  /\ SegIdle /\ ScoreIdle /\ DlIdle /\ PipeIdle /\ StIdle /\ MoreIdle

NextSmooth == SmoothCall

SpecSmooth == InitSmooth /\ [][NextSmooth]_vars

InitDl ==
  /\ dlPc = "call" /\ dlArgs \in DlArgsSet /\ hop = FirstHop(dlArgs)
  /\ requests = 0 /\ redirectsSeen = 0
  /\ resp = NoResp /\ promise = "pending" /\ settleCount = 0 /\ dlError = NoErr
  /\ settled = FALSE /\ downloaded = 0 /\ bodyLeft = 0 /\ resState = "none"
  /\ fsOpen = "none" /\ fsEnded = FALSE /\ fsDestroyed = FALSE /\ fileExists = FALSE
  /\ fileExt = ""
  /\ SegIdle /\ ScoreIdle /\ SmoothIdle /\ PipeIdle /\ StIdle /\ MoreIdle

NextDl ==
  \/ DlCall \/ RequestError \/ OnRedirect \/ OnRefused \/ OnAccepted
  \/ FileOpen \/ ResData \/ ResEnd \/ ResError \/ FileError \/ FileFinish

SpecDl == InitDl /\ [][NextDl]_vars

\* The event loop runs every callback that is due and the operating system
\* completes every open it was given; nothing obliges the server to answer.
SpecDlFair ==
  InitDl /\ [][NextDl]_vars /\ WF_vars(DlCall) /\ WF_vars(FileOpen) /\ WF_vars(FileFinish)

InitPipe ==
  /\ pipePc = "start" /\ params \in ParamsSet /\ inputPath = "none"
  /\ downloadedPath = FALSE /\ outputPath = FALSE
  /\ disk = [EmptyDisk EXCEPT !.input = Truthy(params.videoPath)]
  /\ segments = <<>> /\ calls = NoCalls /\ completed = NoCalls
  /\ raised = NoErr /\ thrown = NoErr
  /\ SegIdle /\ ScoreIdle /\ SmoothIdle /\ DlIdle /\ StIdle /\ MoreIdle

NextPipe ==
  \/ PipeStart \/ DownloadResolved \/ DownloadRejected
  \/ SaveInputResolved \/ SaveInputRejected
  \/ DetectResolved \/ DetectRejected
  \/ TrimWritesOutput \/ TrimResolved \/ TrimRejected
  \/ SaveOutputResolved \/ SaveOutputRejected

SpecPipe == InitPipe /\ [][NextPipe]_vars

\* every machine at once
InitStore ==
  /\ stPc = "new" /\ stOptions \in StOptionsSet /\ containerClient = FALSE
  /\ sharedKey = FALSE /\ containerReady = "none" /\ createCalls = 0
  /\ localFiles \in [input : BOOLEAN, output : BOOLEAN]
  /\ blobs \in [input : BOOLEAN, output : BOOLEAN]
  /\ ops = [i \in 1..MaxOps |-> NoOp]
  /\ SegIdle /\ ScoreIdle /\ SmoothIdle /\ DlIdle /\ PipeIdle /\ MoreIdle

NextStore ==
  \/ StConstruct \/ CreateResolved \/ CreateRejected
  \/ StartOp \/ OpReady \/ OpReadyRejected \/ OpBlobDone \/ OpBlobFailed

SpecStore == InitStore /\ [][NextStore]_vars

InitTrim ==
  /\ trPc = "call" /\ trArgs \in TrimArgsSet /\ withAudio = FALSE /\ probes = 0
  /\ runs = 0 /\ trOutput = trArgs.outputBefore /\ trFilter = NoFilter /\ trError = NoErr
  /\ OldIdle /\ DetectIdle /\ OptionsIdle /\ UploadsIdle

NextTrim == TrimCall \/ ProbeDone \/ FfmpegWrites \/ FfmpegEnd \/ FfmpegError

SpecTrim == InitTrim /\ [][NextTrim]_vars

InitDetect ==
  /\ detPc = "call" /\ detArgs \in DetectArgsSet /\ tmpDir = FALSE /\ rawFile = "none"
  /\ framesWritten = 0 /\ detResult = -1 /\ detError = NoErr
  /\ OldIdle /\ TrimIdle /\ OptionsIdle /\ UploadsIdle

NextDetect ==
  \/ DetectCall \/ MetadataRejected \/ MetadataResolved \/ ExtractWrites
  \/ ExtractRejected \/ ExtractResolved

SpecDetect == InitDetect /\ [][NextDetect]_vars

InitOptions ==
  /\ optPc = "call" /\ optBody \in BodySet /\ optOptions = NoOptions
  /\ OldIdle /\ TrimIdle /\ DetectIdle /\ UploadsIdle

NextOptions == OptionsCall

SpecOptions == InitOptions /\ [][NextOptions]_vars

InitUploads ==
  /\ cachedUploadsDir = "undefined" /\ envUploadsDir \in EnvDirs /\ mkdirCalls = 0
  /\ updCalls = 0 /\ updResult = NoUpdResult
  /\ OldIdle /\ TrimIdle /\ DetectIdle /\ OptionsIdle

NextUploads == ResolveCall \/ SetEnv

SpecUploads == InitUploads /\ [][NextUploads]_vars

Init == InitSeg \/ InitSegRuns \/ InitScore \/ InitSmooth \/ InitDl \/ InitPipe \/ InitStore
          \/ InitTrim \/ InitDetect \/ InitOptions \/ InitUploads
Next == NextSeg \/ NextScore \/ NextSmooth \/ NextDl \/ NextPipe \/ NextStore
          \/ NextTrim \/ NextDetect \/ NextOptions \/ NextUploads
Spec == Init /\ [][Next]_vars

(***************************************************************************)
(* Properties                                                              *)
(***************************************************************************)

\* C1: every list returned by scoresToSegments is strictly ordered and
\* non-overlapping (each start greater than the previous end) and every segment
\* satisfies 0 <= start < end <= duration, also for score lists with more entries
\* than duration * sampleFps.
C1_SegmentsOrderedWithinDuration ==
  segPc = "done" =>
    \A k \in 1..Len(segResult) :
      /\ 0 <= segResult[k].start
      /\ segResult[k].start < segResult[k].end
      /\ segResult[k].end <= segArgs.duration
      /\ k > 1 => segResult[k].start > segResult[k - 1].end

\* both streams of the download are closed (or were never created)
StreamsClosed ==
  /\ resState \in {"none", "ended", "destroyed"}
  /\ fsOpen \in {"none", "closed"}

\* the response at hand passes the status and type checks and its body exceeds maxBytes
OversizeResponse ==
  /\ resp.status = 200
  /\ isAllowedVideo(resp.contentType, inferExtension(hop.url, resp.contentType))
  /\ resp.body > hop.maxBytes

\* C2: for a response whose body exceeds maxBytes (declared or streamed), under
\* every interleaving of data/error and open/finish/error events, the download never
\* resolves, a VideoDownloadError it rejects with is the size-limit one, and once it
\* has rejected and the streams are closed no file of the download remains.
C2_OversizeRejectedNoFile ==
  OversizeResponse =>
    /\ promise # "resolved"
    /\ (promise = "rejected" /\ dlError.cls = "VideoDownloadError") => dlError = SizeError
    /\ (promise = "rejected" /\ StreamsClosed) => ~fileExists

\* the acceptance rule as the claim states it: the extension is that of the URL path
ClaimedAllowed(contentType, url) ==
  LET t == NormalizedType(contentType) IN
  \/ StartsWithVideo(t)
  \/ t \in ALLOWED_VIDEO_MIME_TYPES
  \/ t = "application/octet-stream" /\ ToLowerCase(url.ext) \in ALLOWED_VIDEO_EXTENSIONS

\* C3: a non-redirect response with status < 400 is accepted only if its content
\* type begins with video/ (or is an allowed type), or is application/octet-stream
\* and the path of the requested URL ends in an allowed extension; every other
\* response is rejected with a VideoDownloadError and no file is created.
C3_OnlyVideoResponsesAccepted ==
  (resp # NoResp /\ ~IsRedirect(resp) /\ resp.status < 400
     /\ ~ClaimedAllowed(resp.contentType, hop.url)) =>
    /\ dlPc = "done"
    /\ promise = "rejected"
    /\ dlError.cls = "VideoDownloadError"
    /\ fsOpen = "none"
    /\ ~fileExists

\* C4: at most 2 redirects are followed: at most 3 requests are issued, a request
\* follows each of the first two redirects, the third redirect is rejected with
\* 'too many redirects' and no file, and every hop has the caller's maxBytes and
\* destinationDir.
C4_AtMostTwoRedirects ==
  /\ requests <= DefaultRedirects + 1
  /\ redirectsSeen <= DefaultRedirects + 1
  /\ dlPc = "awaitResponse" => requests = redirectsSeen + 1
  /\ dlPc = "call" => redirectsSeen <= DefaultRedirects
  /\ hop.maxBytes = dlArgs.maxBytes
  /\ hop.destinationDir = dlArgs.destinationDir
  /\ redirectsSeen = DefaultRedirects + 1 =>
       /\ promise = "rejected" /\ dlError = RedirectError
       /\ requests = DefaultRedirects + 1
  /\ dlError = RedirectError =>
       /\ redirectsSeen = DefaultRedirects + 1
       /\ fsOpen = "none" /\ ~fileExists

C4_Witness ==
  /\ promise = "rejected" /\ dlError = RedirectError
  /\ requests = 3 /\ redirectsSeen = 3

\* C5: every failure of downloadVideoFromUrl is reported as a VideoDownloadError
\* whose statusCode lies between 400 and 502.
C5_FailuresAreVideoDownloadErrors ==
  promise = "rejected" =>
    /\ dlError.cls = "VideoDownloadError"
    /\ dlError.statusCode >= 400
    /\ dlError.statusCode <= 502

\* C6: when the download fails after the write stream was created, then once the
\* promise has rejected and the streams are closed the partial file does not exist.
C6_PartialFileDeleted ==
  (dlPc = "streaming" /\ promise = "rejected" /\ StreamsClosed) => ~fileExists

\* C7: downloadVideoFromUrl always settles: no execution leaves the promise pending
\* forever, also when the server never answers or stops sending.
C7_AlwaysSettles == <>(promise # "pending")

C9_OtherFailuresWrapped ==
  pipePc = "failed" =>
    IF raised.cls \in {"VideoDownloadError", "NoSegmentsDetectedError"}
    THEN thrown = raised
    ELSE thrown.cls = "PipelineError" /\ thrown.cause = raised

\* C9 (amended): every failure of runTrimPipeline reaches the caller as the very
\* error that was raised; nothing is wrapped.
C9_AllFailuresUnchanged ==
  pipePc = "failed" => (thrown = raised /\ thrown.cls # "PipelineError")

C9_Witness ==
  /\ pipePc = "failed" /\ calls.trim = 1
  /\ raised = PlainError("ffmpeg trim failed") /\ thrown = raised

\* C10: when detectMotionSegments returns an empty list the run fails with
\* NoSegmentsDetectedError carrying segments = [], trimVideoToSegments and
\* saveOutput are never called and no output file is created.
C10_EmptySegmentsStopTheRun ==
  (completed.detect > 0 /\ segments = <<>>) =>
    /\ pipePc = "failed"
    /\ thrown = NoSegmentsDetectedError(<<>>)
    /\ calls.trim = 0 /\ calls.saveOutput = 0
    /\ ~outputPath /\ ~disk.output /\ disk.storedOutput = "none"

C10_Witness ==
  /\ completed.detect = 1 /\ segments = <<>> /\ pipePc = "failed"
  /\ thrown.cls = "NoSegmentsDetectedError"

\* C11: called with neither videoPath nor videoUrl (absent or empty), the run fails
\* with VideoDownloadError 'No video provided' before any storage operation,
\* detection or trimming is started.
C11_NoVideoFailsFirst ==
  (pipePc # "start" /\ params.videoPath \in {"undefined", ""}
     /\ params.videoUrl \in {"undefined", ""}) =>
    /\ pipePc = "failed"
    /\ thrown = NoVideoError
    /\ thrown.cls = "VideoDownloadError"
    /\ calls = NoCalls /\ completed = NoCalls
    /\ disk = EmptyDisk
    /\ ~downloadedPath /\ ~outputPath

C11_Witness ==
  /\ pipePc = "failed" /\ params.videoPath = "" /\ params.videoUrl = ""
  /\ thrown = NoVideoError

\* C12: every stage is started at most once and only after the previous one has
\* returned, in the order download (only when videoUrl is used) -> saveInput ->
\* detectMotionSegments -> trimVideoToSegments -> saveOutput; a result is returned
\* only after saveOutput has returned, and no stage is started again after a failure.
C12_StagesInOrderOnce ==
  /\ \A st \in DOMAIN calls : calls[st] <= 1 /\ completed[st] <= calls[st]
  /\ calls.download = 1 => (~Truthy(params.videoPath) /\ Truthy(params.videoUrl))
  /\ calls.saveInput = 1 =>
       (completed.download = 1 \/ (calls.download = 0 /\ Truthy(params.videoPath)))
  /\ calls.detect = 1 => completed.saveInput = 1
  /\ calls.trim = 1 => completed.detect = 1
  /\ calls.saveOutput = 1 => completed.trim = 1
  /\ pipePc = "done" => (completed.saveOutput = 1 /\ thrown = NoErr)
  /\ pipePc = "failed" =>
       \A st \in DOMAIN calls : calls[st] = 1 /\ completed[st] = 0 =>
         \A later \in DOMAIN calls : later # st /\ calls[later] = 1 => completed[later] = 1

C12_Witness ==
  /\ pipePc = "done" /\ calls.download = 1
  /\ \A st \in DOMAIN calls : calls[st] = 1 /\ completed[st] = 1

\* the connection string the instance was constructed with is present
ConnectionStringPresent == ConnectionString(stOptions) \notin {"undefined", ""}

\* C13: the storage variant is fixed at construction by the presence of a connection
\* string alone: with a non-empty connection string every operation goes to the blob
\* container, without one every operation goes to the local directories.
C13_VariantFixedByConnectionString ==
  \A i \in 1..MaxOps :
    ops[i].pc # "idle" =>
      ops[i].backend = IF ConnectionStringPresent THEN "blob" ELSE "local"

\* C14: in blob mode createIfNotExists is issued exactly once per instance, and
\* every blob operation, also one started before the creation has finished, issues
\* its first blob call only after the creation has completed.
C14_BlobCallsAfterContainerReady ==
  /\ stPc = "ready" => createCalls = (IF ConnectionStringPresent THEN 1 ELSE 0)
  /\ stPc = "new" => createCalls = 0
  /\ \A i \in 1..MaxOps :
       (ops[i].backend = "blob" /\ ops[i].pc \in {"blobCall", "done"}) =>
         containerReady = "resolved"

C14_Witness ==
  /\ containerReady = "resolved"
  /\ ops[1].backend = "blob" /\ ops[1].pc = "done"
  /\ ops[2].backend = "blob" /\ ops[2].pc = "blobCall"
  /\ createCalls = 1

\* the bytes of the complete frames of the call's buffer
CompleteFrames ==
  SubSeq(scArgs.rawData, 1, Len(scResult) * scArgs.frameSize)

\* C15: for every buffer and every frameSize >= 1 computeMotionScores returns exactly
\* floor(length / frameSize) scores, none when the buffer holds less than one frame,
\* the trailing bytes of an incomplete frame change nothing, and the first score of
\* a non-empty result is 0.
C15_OneScorePerCompleteFrame ==
  scPc = "done" =>
    /\ Len(scResult) * scArgs.frameSize <= Len(scArgs.rawData)
    /\ Len(scArgs.rawData) < (Len(scResult) + 1) * scArgs.frameSize
    /\ (Len(scArgs.rawData) < scArgs.frameSize => scResult = <<>>)
    /\ scResult = computeMotionScores(CompleteFrames, scArgs.frameSize)
    /\ (scResult # <<>> => scResult[1].num = 0)

C15_Witness ==
  /\ scPc = "done"
  /\ Len(scArgs.rawData) % scArgs.frameSize # 0
  /\ Len(scResult) >= 2
  /\ scResult[2].num > 0

\* frame i of the call's buffer, i counted from 0
Frame(i) == SubSeq(scArgs.rawData, i * scArgs.frameSize + 1, (i + 1) * scArgs.frameSize)

ByteDistance(a, b) == IF a >= b THEN a - b ELSE b - a

\* the sum of the bytewise distances of two frames, over their first n bytes
RECURSIVE FrameDistance(_, _, _)
FrameDistance(f, g, n) ==
  IF n = 0 THEN 0 ELSE ByteDistance(f[n], g[n]) + FrameDistance(f, g, n - 1)

\* C16: for every frame index i >= 1, score[i] * frameSize * 255 is the sum over the
\* frame's bytes of the absolute difference between frame i and frame i - 1; the
\* score lies in [0, 1], is 0 exactly when the two frames are bytewise equal and is
\* 1 exactly when every byte differs by 255.
C16_ScoreIsMeanAbsoluteDifference ==
  scPc = "done" =>
    \A i \in 1..(Len(scResult) - 1) :
      LET score == scResult[i + 1]
          frameSize == scArgs.frameSize IN
      /\ score.den > 0
      /\ score.num * frameSize * 255
           = FrameDistance(Frame(i), Frame(i - 1), frameSize) * score.den
      /\ 0 <= score.num /\ score.num <= score.den
      /\ score.num = 0 <=> Frame(i) = Frame(i - 1)
      /\ score.num = score.den <=>
           \A j \in 1..frameSize : ByteDistance(Frame(i)[j], Frame(i - 1)[j]) = 255

C16_Witness ==
  /\ scPc = "done"
  /\ scArgs.frameSize = 2
  /\ Len(scResult) = 2
  /\ 0 < scResult[2].num /\ scResult[2].num < scResult[2].den
  /\ Frame(1)[1] < Frame(0)[1]

\* the list smoothScores was called with, as it was at the call
GivenScores == smBefore[smArgs.scores]

\* C17: smoothScores(xs, W) with W <= 1 returns a new list equal element by element
\* to xs; for every W it leaves xs unchanged and returns a fresh list of the length
\* of xs.
C17_SmoothReturnsFreshList ==
  smPc = "done" =>
    /\ smHeap[smArgs.scores] = GivenScores
    /\ smResult # smArgs.scores
    /\ smResult \notin 1..Len(smBefore)
    /\ smResult \in 1..Len(smHeap)
    /\ Len(smHeap[smResult]) = Len(GivenScores)
    /\ (smArgs.windowSize <= 1 =>
          \A k \in 1..Len(GivenScores) : smHeap[smResult][k] = GivenScores[k])

C17_Witness ==
  /\ smPc = "done"
  /\ smArgs.windowSize <= 1
  /\ Len(GivenScores) >= 2
  /\ GivenScores[1] # GivenScores[2]
  /\ smHeap[smResult] = GivenScores

\* the sum of the given scores at the 0-based indices of S
RECURSIVE SumAt(_)
SumAt(S) ==
  IF S = {} THEN 0
  ELSE LET k == CHOOSE k \in S : TRUE IN GivenScores[k + 1].num + SumAt(S \ {k})

\* C18: for W > 1 and every index i of a list of length N, smoothScores returns at i
\* the arithmetic mean of the scores at the indices max(0, i - floor(W/2)) up to but
\* excluding min(N, i + floor(W/2) + 1), dividing by the number of values included.
C18_WindowMeanOverIncluded ==
  (smPc = "done" /\ smArgs.windowSize > 1) =>
    LET N == Len(GivenScores)
        W == smArgs.windowSize IN
    \A i \in 0..(N - 1) :
      LET included == {k \in 0..(N - 1) : k >= i - (W \div 2) /\ k < i + (W \div 2) + 1}
          mean == smHeap[smResult][i + 1] IN
      /\ mean.den > 0
      /\ mean.num * Cardinality(included) = SumAt(included) * mean.den

C18_Witness ==
  /\ smPc = "done"
  /\ smArgs.windowSize = 3
  /\ Len(GivenScores) >= 4
  /\ smHeap[smResult][1] = [num |-> 1, den |-> 2]
  /\ smHeap[smResult][2].den = 3

\* the length of a run
RunLength(s) == s.end - s.start

\* sample k (counted from 1) lies in run j of raw: a closed run holds the samples
\* from its start up to its end, the last run when open holds all from its start
InRun(raw, j, k) ==
  LET t == TimeOf(k - 1, segArgs.sampleFps) IN
  /\ raw[j].start <= t
  /\ \/ t < raw[j].end
     \/ j = Len(raw) /\ raw[j].end = segArgs.duration
                     /\ \A m \in k..Len(segArgs.smoothed) :
                          segArgs.smoothed[m] >= segArgs.threshold

\* C19: every run that survives the min-length filter has end - start >=
\* minSegmentLength; a run with end - start < minSegmentLength contributes nothing to
\* the output; a value exactly equal to the threshold counts as active.
C19_ShortRunsDropped ==
  segPc = "done" =>
    LET raw == segStages.raw
        filtered == segStages.filtered
        padded == segStages.padded
        long == {k \in 1..Len(raw) : RunLength(raw[k]) >= segArgs.minSegmentLength} IN
    /\ \A j \in 1..Len(filtered) : RunLength(filtered[j]) >= segArgs.minSegmentLength
    /\ Len(filtered) = Cardinality(long)
    /\ \A k \in long : \E j \in 1..Len(filtered) : filtered[j] = raw[k]
    /\ Len(padded) = Len(filtered)
    /\ \A j \in 1..Len(padded) :
         padded[j] = [start |-> Max(0, filtered[j].start - segArgs.preRoll),
                      end |-> Min(segArgs.duration, filtered[j].end + segArgs.postRoll)]
    /\ \A m \in 1..Len(segResult) :
         /\ \E j \in 1..Len(padded) : segResult[m].start = padded[j].start
         /\ \E j \in 1..Len(padded) : segResult[m].end = padded[j].end
    /\ \A k \in 1..Len(segArgs.smoothed) :
         segArgs.smoothed[k] = segArgs.threshold =>
           \E j \in 1..Len(raw) : InRun(raw, j, k)

C19_Witness ==
  /\ segPc = "done"
  /\ segArgs.minSegmentLength > 0
  /\ \E k \in 1..Len(segStages.raw) :
       RunLength(segStages.raw[k]) = segArgs.minSegmentLength
  /\ \E k \in 1..Len(segStages.raw) :
       /\ RunLength(segStages.raw[k]) >= 0
       /\ RunLength(segStages.raw[k]) < segArgs.minSegmentLength
  /\ Len(segStages.filtered) = 1
  /\ Len(segResult) = 1

\* consecutive padded segments k and k + 1 overlap or touch
Touch(padded, k) == padded[k + 1].start <= padded[k].end

\* the output segments that hold the padded segment p
Holding(p) ==
  {m \in 1..Len(segResult) :
     segResult[m].start <= p.start /\ p.end <= segResult[m].end}

\* the first and the last padded segment of the chain of overlapping or touching
\* segments that the padded segment k belongs to
ChainFirst(padded, k) ==
  CHOOSE i \in 1..k :
    /\ \A m \in i..(k - 1) : Touch(padded, m)
    /\ i = 1 \/ ~Touch(padded, i - 1)

ChainLast(padded, k) ==
  CHOOSE i \in k..Len(padded) :
    /\ \A m \in k..(i - 1) : Touch(padded, m)
    /\ i = Len(padded) \/ ~Touch(padded, i)

\* C20 as stated: whenever two consecutive padded segments overlap or touch, the
\* output holds exactly one segment for them, whose start is the earlier one's start
\* and whose end is the maximum of the two ends; two consecutive padded segments
\* separated by a gap stay two separate segments.
C20_PairMergedFromEarlierStart ==
  segPc = "done" =>
    LET padded == segStages.padded IN
    \A k \in 1..(Len(padded) - 1) :
      IF Touch(padded, k)
      THEN \E m \in 1..Len(segResult) :
             /\ Holding(padded[k]) \cup Holding(padded[k + 1]) = {m}
             /\ segResult[m].start = padded[k].start
             /\ segResult[m].end = Max(padded[k].end, padded[k + 1].end)
      ELSE \E m \in 1..(Len(segResult) - 1) :
             /\ segResult[m].end = padded[k].end
             /\ segResult[m + 1].start = padded[k + 1].start

\* C20, amended: whenever two consecutive padded segments overlap or touch, the
\* output holds exactly one segment for them; its start is the start of the first
\* padded segment of their chain of overlapping or touching segments and its end is
\* the largest end of the chain, which are the earlier one's start and the maximum
\* of the two ends when the chain is the pair alone.  Two consecutive padded
\* segments separated by a gap stay two separate segments.
C20_ChainMergedIntoOne ==
  segPc = "done" =>
    LET padded == segStages.padded IN
    \A k \in 1..(Len(padded) - 1) :
      IF Touch(padded, k)
      THEN LET first == ChainFirst(padded, k)
               last == ChainLast(padded, k + 1) IN
           \E m \in 1..Len(segResult) :
             /\ Holding(padded[k]) \cup Holding(padded[k + 1]) = {m}
             /\ segResult[m].start = padded[first].start
             /\ \A j \in first..last : padded[j].end <= segResult[m].end
             /\ \E j \in first..last : padded[j].end = segResult[m].end
             /\ (first = k /\ last = k + 1) =>
                  /\ segResult[m].start = padded[k].start
                  /\ segResult[m].end = Max(padded[k].end, padded[k + 1].end)
      ELSE \E m \in 1..(Len(segResult) - 1) :
             /\ segResult[m].end = padded[k].end
             /\ segResult[m + 1].start = padded[k + 1].start

C20_Witness ==
  /\ segPc = "done"
  /\ Len(segStages.padded) = 3
  /\ Touch(segStages.padded, 1) /\ Touch(segStages.padded, 2)
  /\ segStages.padded[2].start = segStages.padded[1].end
  /\ segStages.padded[1].start < segStages.padded[2].start
  /\ segStages.padded[3].end > segStages.padded[3].start
  /\ Len(segResult) = 1

\* the 0-based indices of the samples at or above the threshold
ActiveIndices ==
  {i \in 0..(Len(segArgs.smoothed) - 1) : segArgs.smoothed[i + 1] >= segArgs.threshold}

\* the active samples are the indices i0 .. i1 - 1
SingleRun(i0, i1) ==
  /\ i0 < i1
  /\ ActiveIndices = i0..(i1 - 1)

\* C21: a score list with a single active run from index i0 to just before index i1
\* gives nothing when the run is shorter than minSegmentLength and otherwise exactly
\* one segment {start: max(0, i0/sampleFps - preRoll), end: min(duration, e +
\* postRoll)}, with e = i1/sampleFps when an inactive sample follows the run and
\* e = duration when the run reaches the end of the list; clamping the start to 0
\* does not change the end.
C21_SingleRunGivesOneSegment ==
  segPc = "done" =>
    \A i0 \in 0..Len(segArgs.smoothed), i1 \in 0..Len(segArgs.smoothed) :
      SingleRun(i0, i1) =>
        LET s == TimeOf(i0, segArgs.sampleFps)
            e == IF i1 < Len(segArgs.smoothed)
                 THEN TimeOf(i1, segArgs.sampleFps)
                 ELSE segArgs.duration IN
        IF e - s < segArgs.minSegmentLength
        THEN segResult = <<>>
        ELSE segResult = <<[start |-> IF s - segArgs.preRoll < 0 THEN 0
                                      ELSE s - segArgs.preRoll,
                            end |-> IF e + segArgs.postRoll > segArgs.duration
                                    THEN segArgs.duration
                                    ELSE e + segArgs.postRoll]>>

C21_Witness ==
  /\ segPc = "done"
  /\ SingleRun(0, 2)
  /\ Len(segArgs.smoothed) > 2
  /\ segArgs.preRoll > 0
  /\ Len(segResult) = 1
  /\ segResult[1].start = 0
  /\ segResult[1].end < segArgs.duration

\* C22: trimVideoToSegments called with an empty segment list fails with an error
\* before probing the input or starting the media tool, and creates no output file.
C22_EmptySegmentListFailsFirst ==
  (trPc \notin {"idle", "call"} /\ trArgs.segments = <<>>) =>
    /\ trPc = "rejected"
    /\ trError = [cls |-> "Error", statusCode |-> 0,
                  message |-> "No segments provided for trimming"]
    /\ probes = 0
    /\ runs = 0
    /\ trOutput = trArgs.outputBefore

C22_Witness ==
  /\ trPc = "rejected"
  /\ trArgs.segments = <<>>
  /\ trArgs.outputBefore = "none"
  /\ trOutput = "none"

C24_StoredInputNeverDeleted ==
  (inputPath = "downloaded" /\ disk.storedInput = "file") => disk.downloaded

\* C25: smoothingWindow is the size of the rolling-average window: for every positive
\* integer W, odd or even, and every index i at least floor(W/2) away from both ends
\* of the list, smoothScores returns at i the average of exactly W consecutive
\* scores.
C25_WindowOfExactlyW ==
  (smPc = "done" /\ smArgs.windowSize >= 1) =>
    LET N == Len(GivenScores)
        W == smArgs.windowSize IN
    \A i \in 0..(N - 1) :
      (i >= W \div 2 /\ i + (W \div 2) <= N - 1) =>
        \E a \in 0..(N - W) :
          /\ a <= i /\ i <= a + W - 1
          /\ smHeap[smResult][i + 1].num * W
               = SumAt(a..(a + W - 1)) * smHeap[smResult][i + 1].den

\* C26: for every untyped request body, the motion options handed to the pipeline
\* are all finite and non-negative, with sampleFps > 0 and smoothingWindow a positive
\* integer; a field that is missing, not a number, or zero takes its default.
C26_OptionsFiniteAndNonNegative ==
  optPc = "done" =>
    /\ \A f \in OptionFields :
         /\ optOptions[f].kind = "finite"
         /\ optOptions[f].val >= 0
         /\ optBody[f] \in {"undefined", "abc", "0"} => optOptions[f] = Defaults[f]
    /\ optOptions.sampleFps.val > 0
    /\ optOptions.smoothingWindow.val > 0
    /\ optOptions.smoothingWindow.val % 100 = 0

\* C27: resolveUploadsDir is memoized: after its first successful call every later
\* call returns the same path without creating a directory again, also when
\* UPLOADS_DIR has changed in between; a call whose directory creation fails caches
\* nothing, so the next call tries again.
C27_UploadsDirMemoized ==
  [][ /\ cachedUploadsDir # "undefined" =>
           /\ cachedUploadsDir' = cachedUploadsDir
           /\ mkdirCalls' = mkdirCalls
           /\ updCalls' # updCalls =>
                updResult' = [kind |-> "returned", path |-> cachedUploadsDir]
      /\ (cachedUploadsDir = "undefined" /\ updCalls' # updCalls) =>
           /\ mkdirCalls' = mkdirCalls + 1
           /\ updResult'.kind = "thrown" => cachedUploadsDir' = "undefined"
           /\ updResult'.kind = "returned" =>
                /\ cachedUploadsDir' = updResult'.path
                /\ cachedUploadsDir' # "undefined"
    ]_vars

C27_Witness ==
  /\ updCalls = 3
  /\ mkdirCalls = 2
  /\ updResult = [kind |-> "returned", path |-> cachedUploadsDir]
  /\ cachedUploadsDir = "/data/a"
  /\ envUploadsDir = "/data/b"

\* C28: for every VideoStorage instance, however it was configured, after
\* saveOutput(path, name) has succeeded, outputExists(name) is true and
\* listOutputs() holds an entry named name.
C28_SavedOutputIsFound ==
  \A i \in 1..MaxOps :
    (/\ ops[i].pc = "done"
     /\ ops[i].savedBefore
     /\ ~ops[i].caught
     /\ ops[i].api \in {"outputExists", "listOutputs"}) => ops[i].result = "yes"

C30_CallerFileUntouched ==
  Truthy(params.videoPath) => disk.input

====
